---- MODULE Spec2Model ----
(***************************************************************************)
(* Model of src/interface.rs of ads122x04-rs: the I2C and UART register    *)
(* access adapters (I2cInterface, SerialInterface) and their WriteData /   *)
(* ReadData implementations.                                               *)
(*                                                                         *)
(* The transports (embedded_hal::i2c::I2c, embedded_io::{Read, Write}) are *)
(* external: every transport call is recorded in `log` and its outcome     *)
(* (success, error value, bytes delivered) is an input of the handler.     *)
(***************************************************************************)
EXTENDS Integers, Sequences, FiniteSets, TLC

VARIABLES
    Commands,   \* registers::Commands as u8: command name -> opcode value
    address,    \* I2cInterface.address
    pc,         \* "idle": no call in progress; "done": a call has returned
    call,       \* the call that returned: [iface, op, args]
    log,        \* the transport calls that call made, in order
    result,     \* the Result the call returned
    prior       \* how the call before `call` ended, for a caller that tracks it

vars == <<Commands, address, pc, call, log, result, prior>>

(***************************************************************************)
(* Bounds of the model.                                                    *)
(***************************************************************************)
\* data and response bytes are drawn from both ends of the u8 range
ByteEdge == 2
\* the transports report error values 1..MaxErr
MaxErr == 2
\* in call sequences, registers are drawn from both ends of the u8 range and
\* from both sides of the 6-bit limit
RegEdge == 1

(***************************************************************************)
(* Program constants and value sets.                                       *)
(***************************************************************************)
\* the synchronisation byte 0x55 that opens every UART frame
SYNC == 85

U8 == 0..255

SampleBytes == {b \in U8 : b < ByteEdge \/ b > 255 - ByteEdge \/ b = SYNC}

Errs == 1..MaxErr

EdgeRegisters == {r \in U8 : r < RegEdge \/ r > 255 - RegEdge \/ r \in 63..64}

\* target addresses an I2cInterface is constructed with
I2cAddresses == {64, 69}

CommandNames == {"WReg", "RReg", "RData"}

\* The enum registers::Commands is not part of src/; the specification fixes
\* only that every command has its own 2-bit opcode.
CommandTables ==
    {t \in [CommandNames -> 0..3] :
        \A c1, c2 \in CommandNames : c1 # c2 => t[c1] # t[c2]}

(***************************************************************************)
(* u8 / u32 arithmetic.                                                    *)
(***************************************************************************)
RECURSIVE BitOr(_, _)
\* a | b
BitOr(a, b) ==
    IF a = 0 THEN b
    ELSE IF b = 0 THEN a
    ELSE (IF a % 2 = 1 \/ b % 2 = 1 THEN 1 ELSE 0) + 2 * BitOr(a \div 2, b \div 2)

\* x << k on u8: the bits shifted out of the byte are dropped
Shl8(x, k) == (x * 2^k) % 256

\* x << k on u32, written so that no intermediate exceeds 32 bits
Shl32(x, k) == (x % 2^(32 - k)) * 2^k

(***************************************************************************)
(* Results and transport calls.                                            *)
(***************************************************************************)
\* Ok(v); v is <<>> for Ok(()) and <<x>> for Ok(x)
Ok(v) == [tag |-> "Ok", val |-> v, err |-> <<>>]

\* Err(Error::CommError(e))
CommError(e) == [tag |-> "CommError", val |-> <<>>, err |-> <<e>>]

\* One transport call: its name, the bus address it names (<<>> on the UART),
\* the bytes handed to it, the length of the buffer it reads into, the error it
\* returned (<<>> when it returned Ok) and the bytes it delivered.
Step(name, addr, wr, cap, err, rd) ==
    [step |-> name, addr |-> addr, wr |-> wr, cap |-> cap, err |-> err, rd |-> rd]

\* Result<_, E>::map_err(Error::CommError) followed by `?` or by the return
Failed(s) == s.err # <<>>

\* a buffer of cap zero bytes after a transport read stored rd at its start
Filled(cap, rd) == [i \in 1..cap |-> IF i <= Len(rd) THEN rd[i] ELSE 0]

\* outcomes of a transport call that delivers nothing: Ok(()) or Err(e)
WriteOutcomes == {<<>>} \cup {<<e>> : e \in Errs}

\* i2c.write_read fills the whole read buffer when it succeeds
I2cReadOutcomes(cap) ==
    {[err |-> <<e>>, rd |-> <<>>] : e \in Errs}
        \cup {[err |-> <<>>, rd |-> s] : s \in [1..cap -> SampleBytes]}

\* embedded_io::Read::read returns Ok(n) with 0 <= n <= buf.len() bytes stored
SerialReadOutcomes(cap) ==
    {[err |-> <<e>>, rd |-> <<>>] : e \in Errs}
        \cup {[err |-> <<>>, rd |-> s] :
                s \in UNION {[1..n -> SampleBytes] : n \in 0..cap}}

\* what the UART does in one call: write_all, flush, read
SerialOutcomes(cap) ==
    [w : WriteOutcomes, f : WriteOutcomes, r : SerialReadOutcomes(cap)]

(***************************************************************************)
(* The command byte and the sample value.                                  *)
(***************************************************************************)
\* mutant: the register shifted by 3 instead of 2
CommandByteShift3(cmd, register) == BitOr(Commands[cmd], Shl8(register, 3))

\* mutant: the register shifted by 1 instead of 2
CommandByteShift1(cmd, register) == BitOr(Commands[cmd], Shl8(register, 1))

\* Commands::X as u8 | (register << 2)
CommandByte(cmd, register) == BitOr(Commands[cmd], Shl8(register, 2))

\* mutant: the sample assembled least-significant byte first
SampleLittleEndian(buffer) ==
    BitOr(BitOr(Shl32(buffer[3], 16), Shl32(buffer[2], 8)), buffer[1])

\* (msb as u32) << 16 | (csb as u32) << 8 | (lsb as u32)
Sample(buffer) ==
    BitOr(BitOr(Shl32(buffer[1], 16), Shl32(buffer[2], 8)), buffer[3])

(***************************************************************************)
(* impl WriteData for I2cInterface                                         *)
(***************************************************************************)
\* mutant: the read opcode pasted into the bus write_register
I2cWriteRegisterReadOpcode(register, data, tx) ==
    LET cmd == CommandByte("RReg", register)
        s   == Step("i2c.write", <<address>>, <<cmd, data>>, 0, tx, <<>>)
    IN  [log |-> <<s>>,
         result |-> IF Failed(s) THEN CommError(s.err[1]) ELSE Ok(<<>>)]

I2cWriteRegister(register, data, tx) ==
    LET cmd == CommandByte("WReg", register)
        s   == Step("i2c.write", <<address>>, <<cmd, data>>, 0, tx, <<>>)
    IN  [log |-> <<s>>,
         result |-> IF Failed(s) THEN CommError(s.err[1]) ELSE Ok(<<>>)]

\* mutant: the result of i2c.write is discarded and Ok(()) returned
I2cWriteDataErrorLost(payload, tx) ==
    LET s == Step("i2c.write", <<address>>, <<payload>>, 0, tx, <<>>)
    IN  [log |-> <<s>>, result |-> Ok(<<>>)]

I2cWriteData(payload, tx) ==
    LET s == Step("i2c.write", <<address>>, <<payload>>, 0, tx, <<>>)
    IN  [log |-> <<s>>,
         result |-> IF Failed(s) THEN CommError(s.err[1]) ELSE Ok(<<>>)]

(***************************************************************************)
(* impl WriteData for SerialInterface                                      *)
(***************************************************************************)
\* mutant: write_all's result is not propagated with `?`, the flush follows anyway
SerialWriteRegisterFlushAnyway(register, data, io) ==
    LET cmd == CommandByte("WReg", register)
        s1  == Step("write_all", <<>>, <<SYNC, cmd, data>>, 0, io.w, <<>>)
        s2  == Step("flush", <<>>, <<>>, 0, io.f, <<>>)
    IN  [log |-> <<s1, s2>>,
         result |-> IF Failed(s2) THEN CommError(s2.err[1]) ELSE Ok(<<>>)]

SerialWriteRegister(register, data, io) ==
    LET cmd == CommandByte("WReg", register)
        s1  == Step("write_all", <<>>, <<SYNC, cmd, data>>, 0, io.w, <<>>)
        s2  == Step("flush", <<>>, <<>>, 0, io.f, <<>>)
    IN  IF Failed(s1) THEN [log |-> <<s1>>, result |-> CommError(s1.err[1])]
        ELSE [log |-> <<s1, s2>>,
              result |-> IF Failed(s2) THEN CommError(s2.err[1]) ELSE Ok(<<>>)]

\* mutant: the flush is left out
SerialWriteDataNoFlush(payload, io) ==
    LET s1 == Step("write_all", <<>>, <<SYNC, payload>>, 0, io.w, <<>>)
    IN  [log |-> <<s1>>,
         result |-> IF Failed(s1) THEN CommError(s1.err[1]) ELSE Ok(<<>>)]

\* mutant: a payload equal to the sync byte is escaped by doubling it
SerialWriteDataEscapeSync(payload, io) ==
    LET frame == IF payload = SYNC THEN <<SYNC, SYNC, payload>>
                 ELSE <<SYNC, payload>>
        s1 == Step("write_all", <<>>, frame, 0, io.w, <<>>)
        s2 == Step("flush", <<>>, <<>>, 0, io.f, <<>>)
    IN  IF Failed(s1) THEN [log |-> <<s1>>, result |-> CommError(s1.err[1])]
        ELSE [log |-> <<s1, s2>>,
              result |-> IF Failed(s2) THEN CommError(s2.err[1]) ELSE Ok(<<>>)]

SerialWriteData(payload, io) ==
    LET s1 == Step("write_all", <<>>, <<SYNC, payload>>, 0, io.w, <<>>)
        s2 == Step("flush", <<>>, <<>>, 0, io.f, <<>>)
    IN  IF Failed(s1) THEN [log |-> <<s1>>, result |-> CommError(s1.err[1])]
        ELSE [log |-> <<s1, s2>>,
              result |-> IF Failed(s2) THEN CommError(s2.err[1]) ELSE Ok(<<>>)]

(***************************************************************************)
(* impl ReadData for I2cInterface                                          *)
(***************************************************************************)
\* mutant: a write transaction followed by a separate read transaction
I2cReadRegisterTwoTransactions(register, tx) ==
    LET cmd    == CommandByte("RReg", register)
        s1     == Step("i2c.write", <<address>>, <<cmd>>, 0, <<>>, <<>>)
        s2     == Step("i2c.read", <<address>>, <<>>, 1, tx.err, tx.rd)
        buffer == Filled(1, s2.rd)
    IN  [log |-> <<s1, s2>>,
         result |-> IF Failed(s2) THEN CommError(s2.err[1]) ELSE Ok(<<buffer[1]>>)]

I2cReadRegister(register, tx) ==
    LET cmd    == CommandByte("RReg", register)
        s      == Step("i2c.write_read", <<address>>, <<cmd>>, 1, tx.err, tx.rd)
        buffer == Filled(1, s.rd)
    IN  [log |-> <<s>>,
         result |-> IF Failed(s) THEN CommError(s.err[1]) ELSE Ok(<<buffer[1]>>)]

I2cReadData(tx) ==
    LET s      == Step("i2c.write_read", <<address>>, <<Commands["RData"]>>, 3,
                       tx.err, tx.rd)
        buffer == Filled(3, s.rd)
    IN  [log |-> <<s>>,
         result |-> IF Failed(s) THEN CommError(s.err[1])
                    ELSE Ok(<<Sample(buffer)>>)]

(***************************************************************************)
(* impl ReadData for SerialInterface                                       *)
(***************************************************************************)
\* mutant: the read is issued without flushing the frame first
SerialReadRegisterNoFlush(register, io) ==
    LET cmd == CommandByte("RReg", register)
        s1  == Step("write_all", <<>>, <<SYNC, cmd>>, 0, io.w, <<>>)
        s3  == Step("read", <<>>, <<>>, 1, io.r.err, io.r.rd)
        out == Filled(1, s3.rd)
    IN  IF Failed(s1) THEN [log |-> <<s1>>, result |-> CommError(s1.err[1])]
        ELSE [log |-> <<s1, s3>>,
              result |-> IF Failed(s3) THEN CommError(s3.err[1])
                         ELSE Ok(<<out[1]>>)]

SerialReadRegister(register, io) ==
    LET cmd == CommandByte("RReg", register)
        s1  == Step("write_all", <<>>, <<SYNC, cmd>>, 0, io.w, <<>>)
        s2  == Step("flush", <<>>, <<>>, 0, io.f, <<>>)
        s3  == Step("read", <<>>, <<>>, 1, io.r.err, io.r.rd)
        out == Filled(1, s3.rd)
    IN  IF Failed(s1) THEN [log |-> <<s1>>, result |-> CommError(s1.err[1])]
        ELSE IF Failed(s2)
            THEN [log |-> <<s1, s2>>, result |-> CommError(s2.err[1])]
        ELSE [log |-> <<s1, s2, s3>>,
              result |-> IF Failed(s3) THEN CommError(s3.err[1])
                         ELSE Ok(<<out[1]>>)]

\* mutant: after a call that failed at write_all or flush, the stream is flushed
\* once more before the frame is written
SerialReadDataResync(io) ==
    LET s0  == Step("flush", <<>>, <<>>, 0, <<>>, <<>>)
        s1  == Step("write_all", <<>>, <<SYNC, Commands["RData"]>>, 0, io.w, <<>>)
        s2  == Step("flush", <<>>, <<>>, 0, io.f, <<>>)
        s3  == Step("read", <<>>, <<>>, 3, io.r.err, io.r.rd)
        out == Filled(3, s3.rd)
        re  == IF prior \in {"write_all", "flush"} THEN <<s0>> ELSE <<>>
    IN  IF Failed(s1) THEN [log |-> re \o <<s1>>, result |-> CommError(s1.err[1])]
        ELSE IF Failed(s2)
            THEN [log |-> re \o <<s1, s2>>, result |-> CommError(s2.err[1])]
        ELSE [log |-> re \o <<s1, s2, s3>>,
              result |-> IF Failed(s3) THEN CommError(s3.err[1])
                         ELSE Ok(<<Sample(out)>>)]

SerialReadData(io) ==
    LET s1  == Step("write_all", <<>>, <<SYNC, Commands["RData"]>>, 0, io.w, <<>>)
        s2  == Step("flush", <<>>, <<>>, 0, io.f, <<>>)
        s3  == Step("read", <<>>, <<>>, 3, io.r.err, io.r.rd)
        out == Filled(3, s3.rd)
    IN  IF Failed(s1) THEN [log |-> <<s1>>, result |-> CommError(s1.err[1])]
        ELSE IF Failed(s2)
            THEN [log |-> <<s1, s2>>, result |-> CommError(s2.err[1])]
        ELSE [log |-> <<s1, s2, s3>>,
              result |-> IF Failed(s3) THEN CommError(s3.err[1])
                         ELSE Ok(<<Sample(out)>>)]

(***************************************************************************)
(* The state machine: a caller makes one call at a time on either adapter. *)
(***************************************************************************)
NoCall == [iface |-> "none", op |-> "none", args |-> <<>>]

NoResult == [tag |-> "none", val |-> <<>>, err |-> <<>>]

Init ==
    /\ Commands \in CommandTables
    /\ address \in I2cAddresses
    /\ pc = "idle"
    /\ call = NoCall
    /\ log = <<>>
    /\ result = NoResult
    /\ prior = "fresh"

\* the call returns r to the caller
Returned(iface, op, args, r) ==
    /\ pc' = "done"
    /\ call' = [iface |-> iface, op |-> op, args |-> args]
    /\ log' = r.log
    /\ result' = r.result
    /\ UNCHANGED <<Commands, address, prior>>

CallI2cWriteRegister ==
    /\ pc = "idle"
    /\ \E register \in U8, data \in SampleBytes, tx \in WriteOutcomes :
        Returned("I2c", "write_register", <<register, data>>,
                 I2cWriteRegister(register, data, tx))

CallI2cWriteData ==
    /\ pc = "idle"
    /\ \E payload \in U8, tx \in WriteOutcomes :
        Returned("I2c", "write_data", <<payload>>, I2cWriteData(payload, tx))

CallSerialWriteRegister ==
    /\ pc = "idle"
    /\ \E register \in U8, data \in SampleBytes, io \in SerialOutcomes(0) :
        Returned("Serial", "write_register", <<register, data>>,
                 SerialWriteRegister(register, data, io))

CallSerialWriteData ==
    /\ pc = "idle"
    /\ \E payload \in U8, io \in SerialOutcomes(0) :
        Returned("Serial", "write_data", <<payload>>,
                 SerialWriteData(payload, io))

CallI2cReadRegister ==
    /\ pc = "idle"
    /\ \E register \in U8, tx \in I2cReadOutcomes(1) :
        Returned("I2c", "read_register", <<register>>,
                 I2cReadRegister(register, tx))

CallI2cReadData ==
    /\ pc = "idle"
    /\ \E tx \in I2cReadOutcomes(3) :
        Returned("I2c", "read_data", <<>>, I2cReadData(tx))

CallSerialReadRegister ==
    /\ pc = "idle"
    /\ \E register \in U8, io \in SerialOutcomes(1) :
        Returned("Serial", "read_register", <<register>>,
                 SerialReadRegister(register, io))

CallSerialReadData ==
    /\ pc = "idle"
    /\ \E io \in SerialOutcomes(3) :
        Returned("Serial", "read_data", <<>>, SerialReadData(io))

\* the caller drops the result; the adapters keep nothing of the call
Drop ==
    /\ pc = "done"
    /\ pc' = "idle"
    /\ call' = NoCall
    /\ log' = <<>>
    /\ result' = NoResult
    /\ UNCHANGED <<Commands, address, prior>>

Next ==
    \/ CallI2cWriteRegister
    \/ CallI2cWriteData
    \/ CallSerialWriteRegister
    \/ CallSerialWriteData
    \/ CallI2cReadRegister
    \/ CallI2cReadData
    \/ CallSerialReadRegister
    \/ CallSerialReadData
    \/ Drop

Spec == Init /\ [][Next]_vars

(***************************************************************************)
(* Sequences of calls on the same adapters, by a caller that keeps track   *)
(* of how the previous call ended.                                         *)
(***************************************************************************)
\* how the returned call ended: "ok", or the transport call that failed
Ended ==
    IF \A i \in 1..Len(log) : ~Failed(log[i]) THEN "ok" ELSE log[Len(log)].step

\* any of the eight methods, with registers drawn from EdgeRegisters and data,
\* payload and response bytes from SampleBytes
HistoryCall ==
    /\ pc = "idle"
    /\ \/ \E register \in EdgeRegisters, data \in SampleBytes, tx \in WriteOutcomes :
            Returned("I2c", "write_register", <<register, data>>,
                     I2cWriteRegister(register, data, tx))
       \/ \E payload \in SampleBytes, tx \in WriteOutcomes :
            Returned("I2c", "write_data", <<payload>>, I2cWriteData(payload, tx))
       \/ \E register \in EdgeRegisters, data \in SampleBytes,
             io \in SerialOutcomes(0) :
            Returned("Serial", "write_register", <<register, data>>,
                     SerialWriteRegister(register, data, io))
       \/ \E payload \in SampleBytes, io \in SerialOutcomes(0) :
            Returned("Serial", "write_data", <<payload>>,
                     SerialWriteData(payload, io))
       \/ \E register \in EdgeRegisters, tx \in I2cReadOutcomes(1) :
            Returned("I2c", "read_register", <<register>>,
                     I2cReadRegister(register, tx))
       \/ \E tx \in I2cReadOutcomes(3) :
            Returned("I2c", "read_data", <<>>, I2cReadData(tx))
       \/ \E register \in EdgeRegisters, io \in SerialOutcomes(1) :
            Returned("Serial", "read_register", <<register>>,
                     SerialReadRegister(register, io))
       \/ \E io \in SerialOutcomes(3) :
            Returned("Serial", "read_data", <<>>, SerialReadData(io))

\* the caller goes on to its next call on the same adapters
Proceed ==
    /\ pc = "done"
    /\ pc' = "idle"
    /\ call' = NoCall
    /\ log' = <<>>
    /\ result' = NoResult
    /\ prior' = Ended
    /\ UNCHANGED <<Commands, address>>

HistoryNext == HistoryCall \/ Proceed

SpecHistory == Init /\ [][HistoryNext]_vars

(***************************************************************************)
(* The write methods with every data and payload byte 0..255.              *)
(***************************************************************************)
PayloadCall ==
    /\ pc = "idle"
    /\ \/ \E register \in EdgeRegisters, data \in U8, tx \in WriteOutcomes :
            Returned("I2c", "write_register", <<register, data>>,
                     I2cWriteRegister(register, data, tx))
       \/ \E payload \in U8, tx \in WriteOutcomes :
            Returned("I2c", "write_data", <<payload>>, I2cWriteData(payload, tx))
       \/ \E register \in EdgeRegisters, data \in U8, io \in SerialOutcomes(0) :
            Returned("Serial", "write_register", <<register, data>>,
                     SerialWriteRegister(register, data, io))
       \/ \E payload \in U8, io \in SerialOutcomes(0) :
            Returned("Serial", "write_data", <<payload>>,
                     SerialWriteData(payload, io))

PayloadNext == PayloadCall \/ Drop

SpecPayload == Init /\ [][PayloadNext]_vars

(***************************************************************************)
(* Vocabulary of the properties.                                           *)
(***************************************************************************)
\* a call of op on iface has returned
Done(iface, op) == pc = "done" /\ call.iface = iface /\ call.op = op

RegisterOps == {"write_register", "read_register"}

\* the command kind a register operation encodes
KindOf(op) == IF op = "write_register" THEN "WReg" ELSE "RReg"

\* the command byte on the wire: first byte of a bus write phase, second byte
\* of a UART frame (after the sync byte)
WireCommand == log[1].wr[IF call.iface = "I2c" THEN 1 ELSE 2]

\* bit i of x
Bit(x, i) == (x \div 2^i) % 2

\* the indices of the transport calls that failed
FailedSteps == {i \in 1..Len(log) : Failed(log[i])}

\* the bytes the first transport call of op(args) on iface is handed
Sent(iface, op, args) ==
    LET ok == [w |-> <<>>, f |-> <<>>, r |-> [err |-> <<>>, rd |-> <<>>]]
    IN  IF iface = "I2c"
        THEN IF op = "write_register"
             THEN I2cWriteRegister(args[1], args[2], <<>>).log[1].wr
             ELSE I2cReadRegister(args[1], [err |-> <<>>, rd |-> <<0>>]).log[1].wr
        ELSE IF op = "write_register"
             THEN SerialWriteRegister(args[1], args[2], ok).log[1].wr
             ELSE SerialReadRegister(args[1], ok).log[1].wr

(***************************************************************************)
(* C1: for every register address 0..63 the command byte that              *)
(* write_register and read_register put on the wire, on both adapters, is  *)
(* opcode | (addr << 2): bit i of it is set exactly when bit i of the      *)
(* opcode is set or i >= 2 and bit i-2 of the address is set.              *)
(***************************************************************************)
C1_CommandByteLayout ==
    (pc = "done" /\ call.op \in RegisterOps /\ call.args[1] \in 0..63) =>
        /\ WireCommand \in U8
        /\ \A i \in 0..7 :
            (Bit(WireCommand, i) = 1) <=>
                \/ Bit(Commands[KindOf(call.op)], i) = 1
                \/ i >= 2 /\ Bit(call.args[1], i - 2) = 1

\* read_register(63) on the UART has sent the opcode with all six address bits set
C1_Witness ==
    /\ Done("Serial", "read_register")
    /\ call.args = <<63>>
    /\ WireCommand = 252 + Commands["RReg"]

(***************************************************************************)
(* C2: for a fixed command kind the encoding is injective over addresses   *)
(* 0..63: the low 2 bits of the transmitted command byte are the opcode,   *)
(* bits 2..7 are the address, and no other address in 0..63 encodes to the *)
(* same byte.                                                              *)
(***************************************************************************)
C2_EncodingInjective ==
    (pc = "done" /\ call.op \in RegisterOps /\ call.args[1] \in 0..63) =>
        /\ WireCommand % 4 = Commands[KindOf(call.op)]
        /\ WireCommand \div 4 = call.args[1]
        /\ \A other \in 0..63 :
            other # call.args[1] =>
                CommandByte(KindOf(call.op), other) # WireCommand

\* write_register(33, _) on the bus: an address with its top and bottom bit set
C2_Witness ==
    /\ Done("I2c", "write_register")
    /\ call.args[1] = 33
    /\ WireCommand \div 4 = 33

(***************************************************************************)
(* C3: a register address in 64..255 is not silently truncated: the call   *)
(* with address 64+k never transmits a command byte whose register field   *)
(* is the address with its high bits dropped, and never puts on the wire   *)
(* the bytes of the call with address k.                                   *)
(***************************************************************************)
C3_NoSilentTruncation ==
    (pc = "done" /\ call.op \in RegisterOps /\ call.args[1] >= 64) =>
        /\ WireCommand \div 4 # call.args[1] % 64
        /\ log[1].wr # Sent(call.iface, call.op,
                            [call.args EXCEPT ![1] = call.args[1] - 64])

(***************************************************************************)
(* C4: a read_data that received three response bytes b0, b1, b2 returns   *)
(* (b0 << 16) | (b1 << 8) | b2: a value in 0..0xFFFFFF from which each of  *)
(* the three bytes is recovered in its position; when no transport call    *)
(* fails, read_data returns a value.                                       *)
(***************************************************************************)
C4_SampleDecoding ==
    (pc = "done" /\ call.op = "read_data") =>
        /\ FailedSteps = {} => result.tag = "Ok" /\ Len(result.val) = 1
        /\ (result.tag = "Ok" /\ Len(log[Len(log)].rd) = 3) =>
            LET b == log[Len(log)].rd
                v == result.val[1]
            IN  /\ v = b[1] * 65536 + b[2] * 256 + b[3]
                /\ v \in 0..16777215
                /\ v \div 65536 = b[1]
                /\ (v \div 256) % 256 = b[2]
                /\ v % 256 = b[3]

\* read_data on the UART received 0x01, 0x55, 0xFF and returned 0x0155FF
C4_Witness ==
    /\ Done("Serial", "read_data")
    /\ log[Len(log)].rd = <<1, 85, 255>>
    /\ result = Ok(<<87551>>)

(***************************************************************************)
(* C5: when a transport call fails, the operation returns the              *)
(* communication error and makes no further transport call: a failed call  *)
(* is the last one of the operation, and no transport call is made twice.  *)
(***************************************************************************)
C5_FailFast ==
    pc = "done" =>
        /\ \A i \in 1..Len(log) :
            Failed(log[i]) => i = Len(log) /\ result.tag = "CommError"
        /\ \A i, j \in 1..Len(log) : i # j => log[i].step # log[j].step

\* a UART read_data whose flush failed: write_all and flush, no read
C5_Witness ==
    /\ Done("Serial", "read_data")
    /\ Len(log) = 2
    /\ Failed(log[2])
    /\ result.tag = "CommError"

(***************************************************************************)
(* C6: on the UART, write_register(addr, value) and write_data(payload)    *)
(* never read; they write the frame [0x55, command byte, value] resp.      *)
(* [0x55, payload] once, and when the write succeeds flush once; they      *)
(* return Ok only after the flush has succeeded.                           *)
(***************************************************************************)
C6_SerialWriteThenFlush ==
    (pc = "done" /\ call.iface = "Serial"
        /\ call.op \in {"write_register", "write_data"}) =>
        /\ Len(log) \in 1..2
        /\ \A i \in 1..Len(log) : log[i].step # "read"
        /\ log[1].step = "write_all"
        /\ call.op = "write_data" => log[1].wr = <<SYNC, call.args[1]>>
        /\ call.op = "write_register" =>
            /\ Len(log[1].wr) = 3
            /\ log[1].wr[1] = SYNC
            /\ log[1].wr[3] = call.args[2]
            /\ call.args[1] \in 0..63 =>
                log[1].wr[2] = Commands["WReg"] + 4 * call.args[1]
        /\ ~Failed(log[1]) => Len(log) = 2
        /\ Len(log) = 2 => log[2].step = "flush" /\ ~Failed(log[1])
        /\ result.tag = "Ok" => Len(log) = 2 /\ FailedSteps = {}

\* write_register(5, 0xFF) on the UART returned Ok after a write and a flush
C6_Witness ==
    /\ Done("Serial", "write_register")
    /\ call.args = <<5, 255>>
    /\ result = Ok(<<>>)
    /\ Len(log) = 2
    /\ log[1].wr = <<SYNC, Commands["WReg"] + 20, 255>>

(***************************************************************************)
(* C7: on the UART, read_register(addr) and read_data make their transport *)
(* calls in the order write_all, flush, read, each at most once and all    *)
(* three when none fails; the frame is [0x55, command byte]; the read is   *)
(* made only after the flush succeeded, and read_register returns the byte *)
(* it received unmodified.                                                 *)
(***************************************************************************)
C7_SerialWriteFlushRead ==
    (pc = "done" /\ call.iface = "Serial"
        /\ call.op \in {"read_register", "read_data"}) =>
        /\ Len(log) \in 1..3
        /\ log[1].step = "write_all"
        /\ call.op = "read_data" => log[1].wr = <<SYNC, Commands["RData"]>>
        /\ call.op = "read_register" =>
            /\ Len(log[1].wr) = 2
            /\ log[1].wr[1] = SYNC
            /\ call.args[1] \in 0..63 =>
                log[1].wr[2] = Commands["RReg"] + 4 * call.args[1]
        /\ Len(log) >= 2 => log[2].step = "flush" /\ ~Failed(log[1])
        /\ Len(log) = 3 =>
            /\ log[3].step = "read"
            /\ ~Failed(log[2])
            /\ log[3].cap = (IF call.op = "read_register" THEN 1 ELSE 3)
        /\ FailedSteps = {} => Len(log) = 3
        /\ result.tag = "Ok" => Len(log) = 3 /\ FailedSteps = {}
        /\ (call.op = "read_register" /\ result.tag = "Ok"
                /\ Len(log[3].rd) >= 1) =>
            result.val = <<log[3].rd[1]>>

\* read_register(7) on the UART: frame, flush, then a read that delivered 0xFE
C7_Witness ==
    /\ Done("Serial", "read_register")
    /\ call.args = <<7>>
    /\ Len(log) = 3
    /\ log[1].wr = <<SYNC, Commands["RReg"] + 28>>
    /\ log[3].rd = <<254>>
    /\ result = Ok(<<254>>)

(***************************************************************************)
(* C8: on the UART, a read_register that returns Ok has received exactly 1 *)
(* byte and a read_data that returns Ok has received exactly 3 bytes: the  *)
(* returned value is never built from the buffer's initial zero bytes.     *)
(***************************************************************************)
C8_ReadUntilFull ==
    (pc = "done" /\ call.iface = "Serial" /\ result.tag = "Ok") =>
        /\ call.op = "read_register" => Len(log[3].rd) = 1
        /\ call.op = "read_data" => Len(log[3].rd) = 3

(***************************************************************************)
(* C9: every call on the I2C adapter makes exactly one bus transaction, to *)
(* the adapter's address, whether it succeeds or fails: write_register one *)
(* write of [command byte, value]; write_data one write of [payload];      *)
(* read_register one write_read of [command byte] with a 1-byte response,  *)
(* returned unmodified; read_data one write_read of [RData opcode], whose  *)
(* register field is zero, with a 3-byte response.                         *)
(***************************************************************************)
C9_OneBusTransaction ==
    (pc = "done" /\ call.iface = "I2c") =>
        /\ Len(log) = 1
        /\ log[1].addr = <<address>>
        /\ call.op = "write_register" =>
            /\ log[1].step = "i2c.write"
            /\ Len(log[1].wr) = 2
            /\ log[1].wr[2] = call.args[2]
            /\ call.args[1] \in 0..63 =>
                log[1].wr[1] = Commands["WReg"] + 4 * call.args[1]
        /\ call.op = "write_data" =>
            /\ log[1].step = "i2c.write"
            /\ log[1].wr = <<call.args[1]>>
        /\ call.op = "read_register" =>
            /\ log[1].step = "i2c.write_read"
            /\ Len(log[1].wr) = 1
            /\ call.args[1] \in 0..63 =>
                log[1].wr[1] = Commands["RReg"] + 4 * call.args[1]
            /\ log[1].cap = 1
            /\ result.tag = "Ok" => result.val = log[1].rd
        /\ call.op = "read_data" =>
            /\ log[1].step = "i2c.write_read"
            /\ log[1].wr = <<Commands["RData"]>>
            /\ log[1].wr[1] \div 4 = 0
            /\ log[1].cap = 3
            /\ result.tag = "Ok" => Len(log[1].rd) = 3

\* read_register(5) on the bus failed after its one write_read to the address
C9_Witness ==
    /\ Done("I2c", "read_register")
    /\ call.args = <<5>>
    /\ Len(log) = 1
    /\ log[1].addr = <<address>>
    /\ Failed(log[1])
    /\ result.tag = "CommError"

(***************************************************************************)
(* C10: an operation returns the communication error exactly when one of   *)
(* its transport calls failed, and the error wraps the value the first     *)
(* failing call reported; when every call succeeds it returns Ok; there is *)
(* no other outcome.                                                       *)
(***************************************************************************)
C10_ErrorIffTransportFailed ==
    pc = "done" =>
        /\ result.tag \in {"Ok", "CommError"}
        /\ result.tag = "CommError" <=> FailedSteps # {}
        /\ FailedSteps = {} => result.tag = "Ok" /\ result.err = <<>>
        /\ FailedSteps # {} =>
            LET first == CHOOSE i \in FailedSteps :
                            \A j \in FailedSteps : i <= j
            IN  result = CommError(log[first].err[1])

\* a UART read_data whose read, its third transport call, failed with error 2
C10_Witness ==
    /\ Done("Serial", "read_data")
    /\ Len(log) = 3
    /\ FailedSteps = {3}
    /\ result = CommError(2)

(***************************************************************************)
(* C11: the adapters are stateless across calls: no call changes the I2C   *)
(* adapter's address, and whatever the previous call did, and in           *)
(* particular after a UART call that failed at write_all or flush, a call  *)
(* makes exactly the transport calls a fresh adapter makes for the same    *)
(* arguments: the same calls, bytes and buffer lengths in the same order,  *)
(* cut short only by its own first failure (no resynchronisation, no extra *)
(* flush, no resend).                                                      *)
(***************************************************************************)
\* the transport calls a fresh adapter makes for call c when none fails
FreshSteps(c) ==
    LET T(name, addr, wr, cap) ==
            [step |-> name, addr |-> addr, wr |-> wr, cap |-> cap]
        r == c.args[1]
    IN  IF c.iface = "I2c"
        THEN CASE c.op = "write_register" ->
                    <<T("i2c.write", <<address>>,
                        <<CommandByte("WReg", r), c.args[2]>>, 0)>>
               [] c.op = "write_data" ->
                    <<T("i2c.write", <<address>>, <<r>>, 0)>>
               [] c.op = "read_register" ->
                    <<T("i2c.write_read", <<address>>,
                        <<CommandByte("RReg", r)>>, 1)>>
               [] OTHER ->
                    <<T("i2c.write_read", <<address>>, <<Commands["RData"]>>, 3)>>
        ELSE CASE c.op = "write_register" ->
                    <<T("write_all", <<>>,
                        <<SYNC, CommandByte("WReg", r), c.args[2]>>, 0),
                      T("flush", <<>>, <<>>, 0)>>
               [] c.op = "write_data" ->
                    <<T("write_all", <<>>, <<SYNC, r>>, 0),
                      T("flush", <<>>, <<>>, 0)>>
               [] c.op = "read_register" ->
                    <<T("write_all", <<>>, <<SYNC, CommandByte("RReg", r)>>, 0),
                      T("flush", <<>>, <<>>, 0),
                      T("read", <<>>, <<>>, 1)>>
               [] OTHER ->
                    <<T("write_all", <<>>, <<SYNC, Commands["RData"]>>, 0),
                      T("flush", <<>>, <<>>, 0),
                      T("read", <<>>, <<>>, 3)>>

\* the returned call made the calls of FreshSteps, up to its first failure
AsOnFreshAdapter ==
    LET plan == FreshSteps(call)
    IN  /\ Len(log) \in 1..Len(plan)
        /\ \A i \in 1..Len(log) :
            /\ log[i].step = plan[i].step
            /\ log[i].addr = plan[i].addr
            /\ log[i].wr = plan[i].wr
            /\ log[i].cap = plan[i].cap
            /\ i < Len(log) => ~Failed(log[i])
        /\ Len(log) < Len(plan) => Failed(log[Len(log)])

C11_Stateless ==
    [][/\ address' = address
       /\ pc' = "done" => AsOnFreshAdapter']_vars

\* a UART read_data right after a call that failed at write_all or flush made
\* its three transport calls and returned a value
C11_Witness ==
    /\ prior \in {"write_all", "flush"}
    /\ Done("Serial", "read_data")
    /\ Len(log) = 3
    /\ result.tag = "Ok"

(***************************************************************************)
(* C12: the two adapters implement the same operations: for every          *)
(* operation and arguments the frame the UART adapter writes is the sync   *)
(* byte 0x55 followed by exactly the bytes the I2C adapter sends in its    *)
(* write phase, and when both transports succeed and deliver the same      *)
(* response bytes (1 for read_register, 3 for read_data) both adapters     *)
(* return the same value.                                                  *)
(***************************************************************************)
\* the same operation on the I2C adapter, its transaction succeeding with
\* response bytes rd
OnBus(op, args, rd) ==
    CASE op = "write_register" -> I2cWriteRegister(args[1], args[2], <<>>)
      [] op = "write_data" -> I2cWriteData(args[1], <<>>)
      [] op = "read_register" -> I2cReadRegister(args[1], [err |-> <<>>, rd |-> rd])
      [] OTHER -> I2cReadData([err |-> <<>>, rd |-> rd])

\* the response length of op
ResponseLen(op) ==
    CASE op = "read_register" -> 1 [] op = "read_data" -> 3 [] OTHER -> 0

C12_AdaptersAgree ==
    (pc = "done" /\ call.iface = "Serial") =>
        LET n   == ResponseLen(call.op)
            got == IF Len(log) = 3 THEN log[3].rd ELSE <<>>
            bus == OnBus(call.op, call.args,
                         IF Len(got) = n THEN got ELSE [i \in 1..n |-> 0])
        IN  /\ Len(bus.log) = 1
            /\ log[1].wr = <<SYNC>> \o bus.log[1].wr
            /\ bus.log[1].cap = n
            /\ (result.tag = "Ok" /\ Len(got) = n) => result = bus.result

\* read_data on the UART received 0xFF, 0x00, 0x01 and returned 0xFF0001, as
\* the I2C adapter does for the same response
C12_Witness ==
    /\ Done("Serial", "read_data")
    /\ Len(log) = 3
    /\ log[3].rd = <<255, 0, 1>>
    /\ result = Ok(<<16711681>>)
    /\ OnBus("read_data", <<>>, <<255, 0, 1>>).result = result

(***************************************************************************)
(* C13: write_register passes its data byte and write_data its payload     *)
(* byte through unmodified for every value 0..255 on both adapters: it is  *)
(* the last byte sent, exactly one byte follows the command byte (or the   *)
(* sync byte, or nothing), so a byte equal to 0x55 or to a command byte is *)
(* not escaped, and the command byte is the one sent with any other data   *)
(* byte: the data is never combined with the opcode or the address.        *)
(***************************************************************************)
C13_PassThrough ==
    (pc = "done" /\ call.op \in {"write_register", "write_data"}) =>
        LET wr     == log[1].wr
            v      == call.args[Len(call.args)]
            header == (IF call.iface = "Serial" THEN 1 ELSE 0)
                        + (IF call.op = "write_register" THEN 1 ELSE 0)
        IN  /\ Len(wr) = header + 1
            /\ wr[Len(wr)] = v
            /\ call.iface = "Serial" => wr[1] = SYNC
            /\ call.op = "write_register" =>
                /\ WireCommand % 4 = Commands["WReg"]
                /\ \A other \in {0, SYNC, 255} :
                    WireCommand = Sent(call.iface, call.op,
                                       <<call.args[1], other>>)[header]
            /\ \A i \in 2..Len(log) : log[i].wr = <<>>

\* write_data(0x55) on the UART sent the frame [0x55, 0x55]
C13_Witness ==
    /\ Done("Serial", "write_data")
    /\ call.args = <<SYNC>>
    /\ log[1].wr = <<SYNC, SYNC>>
    /\ result = Ok(<<>>)

====
